---- MODULE Spec2Model ----
(***************************************************************************)
(* Copperhead: the snake simulation (Snake, Game) of src/main.rs and the   *)
(* part of main's event loop that feeds it: the single-slot                *)
(* pending_direction buffer, the key handler and the move tick.            *)
(*                                                                         *)
(* Rendering, window set-up and the wall-clock timer are left out: an      *)
(* update event whose snake_move_timer is still below snake_move_interval  *)
(* changes nothing but the timer, and Tick is the update event on which    *)
(* the timer has reached the interval.                                     *)
(***************************************************************************)
EXTENDS Integers, Sequences, FiniteSets

\* ------------------------------------------------------------- constants
GRID_SIZE == 20

\* ---------------------------------------------------------------- bounds
\* Snake::update and Game::update as functions are run on snakes of 3 to
\* MaxBody cells laid out within Span cells of two opposite grid corners.
MaxBody == 4
Span == 1
\* Key presses the player makes in one run of the program.
MaxKeys == 3
\* rand::thread_rng is modelled as a free choice among the free cells whose
\* distance (in both coordinates) from the centre cell is at most FoodReach.
FoodReach == 1

\* ----------------------------------------------------------------- types
Direction == {"Left", "Right", "Up", "Down"}
\* The keys the driver tells apart: Space, the four arrows, any other key.
Key == {"Space", "Up", "Down", "Left", "Right", "Other"}

VARIABLES
    game,               \* the Game value of main: snake, food, score, high_score, state
    pending_direction,  \* Option<Direction>: "None" or a Direction
    ev,                 \* the event handled last: "init", "tick" or the key pressed
    keys                \* number of key presses so far

vars == <<game, pending_direction, ev, keys>>

\* ----------------------------------------------------------------- Snake
Snake_new ==
    LET y == GRID_SIZE \div 2
        x == GRID_SIZE \div 2
    IN  [ body         |-> << <<x, y>>, <<x - 1, y>>, <<x - 2, y>> >>,
          dir          |-> "Right",
          grow_on_next |-> FALSE ]

contains(body, pos) == \E i \in 1..Len(body) : body[i] = pos

pop_back(body) == SubSeq(body, 1, Len(body) - 1)

\* Faulty variant of new_head_of: Up and Down are swapped.
new_head_of_flipped(s) ==
    LET h == s.body[1]
    IN  CASE s.dir = "Left"  -> <<h[1] - 1, h[2]>>
          [] s.dir = "Right" -> <<h[1] + 1, h[2]>>
          [] s.dir = "Up"    -> <<h[1], h[2] + 1>>
          [] s.dir = "Down"  -> <<h[1], h[2] - 1>>

\* The front cell moved one cell in the heading.
new_head_of(s) ==
    LET h == s.body[1]
    IN  CASE s.dir = "Left"  -> <<h[1] - 1, h[2]>>
          [] s.dir = "Right" -> <<h[1] + 1, h[2]>>
          [] s.dir = "Up"    -> <<h[1], h[2] - 1>>
          [] s.dir = "Down"  -> <<h[1], h[2] + 1>>

\* Faulty variant of Snake::update: the push_front is missing, so a move
\* without food drops the tail of the old body.
Snake_update_no_push(s, food) ==
    LET new_head == new_head_of(s)
        ate      == (new_head = food)
    IN  [ snake |-> [ body         |-> IF ~ate /\ ~s.grow_on_next
                                       THEN pop_back(s.body)
                                       ELSE s.body,
                      dir          |-> s.dir,
                      grow_on_next |-> IF ~ate /\ ~s.grow_on_next
                                       THEN s.grow_on_next ELSE FALSE ],
          ate   |-> ate ]

\* Snake::update: the snake afterwards and the returned flag.
Snake_update(s, food) ==
    LET new_head == new_head_of(s)
        pushed   == <<new_head>> \o s.body
        ate      == (new_head = food)
    IN  [ snake |-> [ body         |-> IF ~ate /\ ~s.grow_on_next
                                       THEN pop_back(pushed)
                                       ELSE pushed,
                      dir          |-> s.dir,
                      grow_on_next |-> IF ~ate /\ ~s.grow_on_next
                                       THEN s.grow_on_next
                                       ELSE IF s.grow_on_next THEN FALSE
                                            ELSE s.grow_on_next ],
          ate   |-> ate ]

Snake_grow(s) == [s EXCEPT !.grow_on_next = TRUE]

Snake_head(s) == s.body[1]

\* Faulty variant of Snake::self_collision: the skip(1) is missing.
Snake_self_collision_no_skip(s) ==
    LET head == Snake_head(s)
    IN  \E i \in 1..Len(s.body) : s.body[i] = head

\* Snake::self_collision
Snake_self_collision(s) ==
    LET head == Snake_head(s)
    IN  \E i \in 2..Len(s.body) : s.body[i] = head

\* Faulty variant of the reversal rule: every proposed direction is taken.
turn_any(last_direction, d) ==
    IF d \in {"Up", "Down", "Left", "Right"} THEN d ELSE last_direction

\* The reversal rule, written out twice in the source (Game::pressed in
\* Running and main's application of the buffered direction).
turn(last_direction, d) ==
    CASE d = "Up"    /\ last_direction # "Down"  -> "Up"
      [] d = "Down"  /\ last_direction # "Up"    -> "Down"
      [] d = "Left"  /\ last_direction # "Right" -> "Left"
      [] d = "Right" /\ last_direction # "Left"  -> "Right"
      [] OTHER                                   -> last_direction

\* ------------------------------------------------------------------ Game
GridCells == (0..(GRID_SIZE - 1)) \X (0..(GRID_SIZE - 1))

\* Faulty variant of FreeCells: the body test is missing.
FreeCells_all(s) == GridCells

FreeCells(s) == {pos \in GridCells : ~contains(s.body, pos)}

\* The cells the random draw of spawn_food is taken from in this model.
NearCells(s) ==
    LET c == GRID_SIZE \div 2
    IN  {pos \in FreeCells(s) :
            /\ pos[1] >= c - FoodReach /\ pos[1] <= c + FoodReach
            /\ pos[2] >= c - FoodReach /\ pos[2] <= c + FoodReach}

SpawnCells(s) == IF NearCells(s) # {} THEN NearCells(s) ELSE FreeCells(s)

\* Faulty variant of Game::spawn_food: the draw is not tested against the
\* body.
spawn_food_any(g) ==
    LET c == GRID_SIZE \div 2
    IN  {[g EXCEPT !.food = pos] :
            pos \in {q \in GridCells :
                       /\ q[1] >= c - FoodReach /\ q[1] <= c + FoodReach
                       /\ q[2] >= c - FoodReach /\ q[2] <= c + FoodReach}}

\* Game::spawn_food: every game the loop can leave behind (none when no cell
\* is free: the loop then never ends).
spawn_food(g) == {[g EXCEPT !.food = pos] : pos \in SpawnCells(g.snake)}

\* Faulty variant of Game::reset: the score is not zeroed.
reset_keeps_score(g) ==
    spawn_food([g EXCEPT !.snake = Snake_new, !.state = "Start"])

\* Game::reset
reset(g) ==
    spawn_food([g EXCEPT !.snake = Snake_new, !.score = 0, !.state = "Start"])

\* Faulty variant of eat: no new food is placed.
eat_no_spawn(g, s) ==
    {[g EXCEPT !.snake = Snake_grow(s), !.score = g.score + 1]}

\* Faulty variant of eat: the score goes up by two.
eat_twice(g, s) ==
    spawn_food([g EXCEPT !.snake = Snake_grow(s), !.score = g.score + 2])

\* Game::update, lines 159-161: the food was eaten.
eat(g, s) ==
    spawn_food([g EXCEPT !.snake = Snake_grow(s), !.score = g.score + 1])

\* Faulty variant of collision: the upper limits are tested with > .
collision_off_by_one(g) ==
    LET x == Snake_head(g.snake)[1]
        y == Snake_head(g.snake)[2]
    IN  \/ x < 0 \/ x > GRID_SIZE \/ y < 0 \/ y > GRID_SIZE
        \/ Snake_self_collision(g.snake)

\* Game::update, lines 165-166: the collision test on the moved snake.
collision(g) ==
    LET x == Snake_head(g.snake)[1]
        y == Snake_head(g.snake)[2]
    IN  \/ x < 0 \/ x >= GRID_SIZE \/ y < 0 \/ y >= GRID_SIZE
        \/ Snake_self_collision(g.snake)

\* Faulty variant of game_over: high_score is overwritten without the
\* comparison.
game_over_overwrite(g) ==
    [g EXCEPT !.state = "GameOver", !.high_score = g.score]

\* Game::update, lines 167-170: the game ends.
game_over(g) ==
    [g EXCEPT !.state = "GameOver",
              !.high_score = IF g.score > g.high_score
                             THEN g.score ELSE g.high_score]

\* Faulty variant of Game::update: the collision is tested before the food
\* is handled, so a losing move never scores.
Game_update_collide_first(g) ==
    IF g.state # "Running" THEN {g}
    ELSE
      LET r     == Snake_update(g.snake, g.food)
          moved == [g EXCEPT !.snake = r.snake]
      IN  IF collision(moved) THEN {game_over(moved)}
          ELSE IF r.ate THEN eat(g, r.snake) ELSE {moved}

\* Game::update: the games one call can leave behind.
Game_update(g) ==
    IF g.state # "Running" THEN {g}
    ELSE
      LET r   == Snake_update(g.snake, g.food)
          fed == IF r.ate THEN eat(g, r.snake)
                          ELSE {[g EXCEPT !.snake = r.snake]}
      IN  {IF collision(h) THEN game_over(h) ELSE h : h \in fed}

\* Faulty variant of Game::pressed: Space restarts a running game too.
pressed_restart_running(g, btn) ==
    CASE g.state = "Start" ->
            IF btn = "Space" THEN {[g EXCEPT !.state = "Running"]} ELSE {g}
      [] g.state = "GameOver" ->
            IF btn = "Space" THEN reset(g) ELSE {g}
      [] g.state = "Running" ->
            IF btn = "Space" THEN reset(g)
            ELSE {[g EXCEPT !.snake.dir = turn(g.snake.dir, btn)]}

\* Game::pressed: the games one call can leave behind.
pressed(g, btn) ==
    CASE g.state = "Start" ->
            IF btn = "Space" THEN {[g EXCEPT !.state = "Running"]} ELSE {g}
      [] g.state = "GameOver" ->
            IF btn = "Space" THEN reset(g) ELSE {g}
      [] g.state = "Running" ->
            {[g EXCEPT !.snake.dir = turn(g.snake.dir, btn)]}

\* ---------------------------------------------------------------- driver
\* main, lines 444-451: the Game literal, then game.spawn_food().
Init ==
    /\ game \in spawn_food([ snake      |-> Snake_new,
                             food       |-> <<5, 5>>,
                             score      |-> 0,
                             high_score |-> 0,
                             state      |-> "Start" ])
    /\ pending_direction = "None"
    /\ ev = "init"
    /\ keys = 0

\* Faulty variant of the key handler: a direction key replaces the direction
\* that is already pending.
KeyEvent_last_wins(key) ==
    /\ ev' = key
    /\ IF key \in Direction
       THEN /\ pending_direction' = key
            /\ UNCHANGED game
       ELSE IF pending_direction = "None"
            THEN /\ game' \in pressed(game, key)
                 /\ UNCHANGED pending_direction
            ELSE UNCHANGED <<game, pending_direction>>

\* main, lines 459-476: the handler of a key press event.
KeyEvent(key) ==
    /\ ev' = key
    /\ IF pending_direction = "None"
       THEN IF key \in Direction
            THEN /\ pending_direction' = key
                 /\ UNCHANGED game
            ELSE /\ game' \in pressed(game, key)
                 /\ UNCHANGED pending_direction
       ELSE UNCHANGED <<game, pending_direction>>

\* A key press of the player, counted against MaxKeys.
KeyPress(key) ==
    /\ keys < MaxKeys
    /\ keys' = keys + 1
    /\ KeyEvent(key)

\* main, lines 484-498: the update event that moves the snake.
Tick ==
    /\ ev' = "tick"
    /\ pending_direction' = "None"
    /\ LET g == IF pending_direction # "None"
                THEN [game EXCEPT !.snake.dir = turn(game.snake.dir, pending_direction)]
                ELSE game
       IN  game' \in Game_update(g)
    /\ UNCHANGED keys

Next ==
    \/ \E key \in Key : KeyPress(key)
    \/ Tick

Spec == Init /\ [][Next]_vars

\* ------------------------------------------------ the methods on their own
\* Snake::update and Game::update called once on a Game value drawn from the
\* inputs below (as a unit test would build it). These values are values of
\* the type: the food may lie on the body or off the grid, which main never
\* produces.
InputCells ==
    {p \in GridCells :
        \/ p[1] <= Span /\ p[2] <= Span
        \/ p[1] >= GRID_SIZE - 1 - Span /\ p[2] >= GRID_SIZE - 1 - Span}

Adjacent(a, b) ==
    \/ a[1] = b[1] /\ (a[2] = b[2] + 1 \/ b[2] = a[2] + 1)
    \/ a[2] = b[2] /\ (a[1] = b[1] + 1 \/ b[1] = a[1] + 1)

\* Bodies of n cells as a snake lays them: neighbouring cells, no cell twice.
RECURSIVE Paths(_)
Paths(n) ==
    IF n = 1 THEN {<<c>> : c \in InputCells}
    ELSE UNION {{Append(b, c) :
                    c \in {q \in InputCells :
                              Adjacent(b[n - 1], q) /\ ~contains(b, q)}} :
                b \in Paths(n - 1)}

InputBodies == {Snake_new.body} \cup UNION {Paths(n) : n \in 3..MaxBody}

\* The four cells around the head (the neck and cells off the grid among
\* them) and the far cell of the documented scenarios.
InputFoods(b) ==
    { <<b[1][1] - 1, b[1][2]>>, <<b[1][1] + 1, b[1][2]>>,
      <<b[1][1], b[1][2] - 1>>, <<b[1][1], b[1][2] + 1>>, <<99, 99>> }

InitCall ==
    /\ \E b \in InputBodies, d \in Direction, gr \in BOOLEAN,
          st \in {"Start", "Running", "GameOver"}, hs \in 0..2 :
         \E f \in InputFoods(b) :
            game = [ snake      |-> [body |-> b, dir |-> d, grow_on_next |-> gr],
                     food       |-> f,
                     score      |-> 0,
                     high_score |-> hs,
                     state      |-> st ]
    /\ pending_direction = "None"
    /\ ev = "init"
    /\ keys = 0

\* One call of Game::update.
UpdateCall ==
    /\ ev = "init"
    /\ ev' = "update"
    /\ game' \in Game_update(game)
    /\ UNCHANGED <<pending_direction, keys>>

\* One call of Snake::update on the snake of the game; ev records the flag
\* it returns.
MoveCall ==
    /\ ev = "init"
    /\ LET r == Snake_update(game.snake, game.food)
       IN  /\ game' = [game EXCEPT !.snake = r.snake]
           /\ ev' = IF r.ate THEN "move_true" ELSE "move_false"
    /\ UNCHANGED <<pending_direction, keys>>

NextCall ==
    \/ UpdateCall
    \/ MoveCall

SpecCall == InitCall /\ [][NextCall]_vars

\* ------------------------------------------------------ a careful player
\* One way of playing the program: the player steers the snake round a fixed
\* closed tour of all cells of the grid, and every new food is, among the
\* cells spawn_food can draw, the one the head reaches first on the tour.
\* Every step is a step of the key handler or of the move tick.
\*
\* The tour: rows are walked over the columns 1 .. GRID_SIZE-1, even rows
\* rightwards and odd rows leftwards, the last row runs on into column 0,
\* and column 0 leads back up to the first row. The initial snake lies on
\* the tour, heading along it.
TourIndex(p) ==
    IF p[1] = 0
    THEN GRID_SIZE * (GRID_SIZE - 1) + (GRID_SIZE - 1 - p[2])
    ELSE p[2] * (GRID_SIZE - 1)
           + (IF p[2] % 2 = 0 THEN p[1] - 1 ELSE GRID_SIZE - 1 - p[1])

TourNext(p) ==
    CHOOSE q \in GridCells :
        TourIndex(q) = (TourIndex(p) + 1) % (GRID_SIZE * GRID_SIZE)

\* The heading that takes the head to the next cell of the tour.
TourHeading ==
    CHOOSE d \in Direction :
        new_head_of([body |-> game.snake.body, dir |-> d])
            = TourNext(Snake_head(game.snake))

\* The player presses Space to start, and the arrow of the tour before a
\* tick that needs a turn.
PlayKey ==
    /\ pending_direction = "None"
    /\ \/ game.state = "Start" /\ KeyEvent("Space")
       \/ /\ game.state = "Running"
          /\ game.snake.dir # TourHeading
          /\ KeyEvent(TourHeading)
    /\ UNCHANGED keys

\* The first cell from p on along the tour that spawn_food can draw for
\* snake s.
RECURSIVE FirstDrawable(_, _)
FirstDrawable(p, s) ==
    IF p \in SpawnCells(s) THEN p ELSE FirstDrawable(TourNext(p), s)

\* The move tick, taken once the heading or the pending direction is the
\* tour's; a tick that eats places the food first ahead of the new head.
PlayTick ==
    /\ game.state = "Running"
    /\ IF pending_direction = "None"
       THEN game.snake.dir = TourHeading
       ELSE pending_direction = TourHeading
    /\ LET s == [game.snake EXCEPT !.dir = TourHeading]
           r == Snake_update(s, game.food)
       IN  IF r.ate
           THEN /\ SpawnCells(r.snake) # {}
                /\ \E f \in {FirstDrawable(TourNext(Snake_head(r.snake)), r.snake)} :
                      Tick /\ game'.food = f
           ELSE Tick

NextPlay ==
    \/ PlayKey
    \/ PlayTick

\* The program as constructed, with (11, 10) as the first food drawn.
InitPlay == Init /\ game.food = <<11, 10>>

SpecPlay == InitPlay /\ [][NextPlay]_vars

\* ------------------------------------------- a run without direction keys
\* The running program from some point on at which no direction is pending
\* and after which the player presses no arrow: the snake is any of the input
\* bodies with any heading, the food a free cell next to the head or right of
\* the centre.
RunFoods(b) ==
    (InputFoods(b) \cup {<<GRID_SIZE \div 2 + 1, GRID_SIZE \div 2>>})
        \cap FreeCells([body |-> b])

InitRun ==
    /\ \E b \in InputBodies, d \in Direction, gr \in BOOLEAN :
         \E f \in RunFoods(b) :
            game = [ snake      |-> [body |-> b, dir |-> d, grow_on_next |-> gr],
                     food       |-> f,
                     score      |-> 0,
                     high_score |-> 0,
                     state      |-> "Running" ]
    /\ pending_direction = "None"
    /\ ev = "init"
    /\ keys = 0

\* A press of Space or of a key the game does not use while the game runs.
RunKey(key) ==
    /\ game.state = "Running"
    /\ KeyEvent(key)
    /\ UNCHANGED keys

NextRun ==
    \/ \E key \in Key \ Direction : RunKey(key)
    \/ Tick

SpecRun == InitRun /\ [][NextRun]_vars

\* ================================================================ claims
\* Shorthands for the formulas below.
body == game.snake.body
InGrid(pos) ==
    pos[1] >= 0 /\ pos[1] < 20 /\ pos[2] >= 0 /\ pos[2] < 20
\* The head of b lies on another cell of b.
HeadOnBody(b) == \E i \in 2..Len(b) : b[i] = b[1]
\* The step is a move tick taken in state Running.
RunningTick == game.state = "Running" /\ ev' = "tick"
\* The move of this tick put the head on the food (Snake::update returned true).
Ate == game'.snake.body[1] = game.food
\* The step is a key press that the driver handed to Game::pressed.
Pressed(key) == ev' = key /\ pending_direction = "None" /\ key \notin Direction

\* C1: the state starts as Start and changes only along Start -> Running
\* (Space), Running -> GameOver (a tick that detects a collision) and
\* GameOver -> Start (Space, through reset).
C1_Lifecycle ==
    /\ game.state = "Start"
    /\ [][ game'.state # game.state =>
             \/ /\ game.state = "Start" /\ game'.state = "Running"
                /\ ev' = "Space"
             \/ /\ game.state = "Running" /\ game'.state = "GameOver"
                /\ ev' = "tick"
                /\ (~InGrid(game'.snake.body[1]) \/ HeadOnBody(game'.snake.body))
             \/ /\ game.state = "GameOver" /\ game'.state = "Start"
                /\ ev' = "Space" ]_vars

\* A second game is running: the whole cycle has been walked through.
C1_Witness == game.state = "Running" /\ game.high_score >= 1

\* C2: in every reachable state the snake body has at least 3 cells.
C2_Length == Len(body) >= 3

\* A game has ended with a snake that has grown.
C2_Witness == game.state = "GameOver" /\ Len(body) >= 5

\* C3: on a tick that eats with no growth pending the body length is
\* unchanged, and the length goes up by exactly one on the tick after it (the
\* tick that finds the growth pending).
C3_GrowthLag ==
    [][ RunningTick =>
          /\ (Ate /\ ~game.snake.grow_on_next)
                => Len(game'.snake.body) = Len(game.snake.body)
          /\ game.snake.grow_on_next
                => Len(game'.snake.body) = Len(game.snake.body) + 1 ]_vars

\* C4: each food eaten lengthens the snake by exactly one cell in total: the
\* body length is 3 + score, less one while the growth is pending.
C4_OneCellPerFood ==
    Len(body) = 3 + game.score - (IF game.snake.grow_on_next THEN 1 ELSE 0)

\* C5: in state Start every press of Space moves the game to Running, whatever
\* the driver has buffered.
C5_ActivateStarts ==
    [][ (game.state = "Start" /\ ev' = "Space") => game'.state = "Running" ]_vars

\* C6: in Start and GameOver every event other than a press of Space (a key
\* press, or a tick that follows it) leaves state, body, heading, food, score
\* and high_score as they are.
C6_OtherInputIgnored ==
    [][ (game.state \in {"Start", "GameOver"} /\ ev' # "Space") =>
          /\ game'.state = game.state
          /\ game'.snake.body = game.snake.body
          /\ game'.snake.dir = game.snake.dir
          /\ game'.food = game.food
          /\ game'.score = game.score
          /\ game'.high_score = game.high_score ]_vars

C8_CollisionEndsGame ==
    [][ RunningTick =>
          IF ~InGrid(game'.snake.body[1]) \/ HeadOnBody(game'.snake.body)
          THEN game'.state = "GameOver"
          ELSE game'.state = "Running" ]_vars

\* A game has ended with the head past the right wall.
C8_Witness ==
    game.state = "GameOver" /\ ev = "tick" /\ body[1][1] = 20

\* C9: high_score never decreases; it changes only on the tick that takes the
\* game from Running to GameOver, where it becomes the larger of high_score
\* and score; in state GameOver high_score >= score.
C9_HighScore ==
    /\ [](game.state = "GameOver" => game.high_score >= game.score)
    /\ [][ /\ game'.high_score >= game.high_score
           /\ game'.high_score # game.high_score =>
                 RunningTick /\ game'.state = "GameOver"
           /\ (RunningTick /\ game'.state = "GameOver") =>
                 game'.high_score = IF game'.score > game.high_score
                                    THEN game'.score ELSE game.high_score ]_vars

\* A later game has ended below the high score of an earlier one.
C9_Witness == game.state = "GameOver" /\ game.score < game.high_score

\* C10: apart from reset, score changes only on a tick in Running whose move
\* ate, and then by exactly +1.
C10_Score ==
    [][ \/ game.state = "GameOver" /\ game'.state = "Start"
        \/ /\ game'.score >= game.score
           /\ game'.score # game.score => RunningTick /\ Ate
           /\ (RunningTick /\ Ate) => game'.score = game.score + 1 ]_vars

\* The running snake has just eaten its second food.
C10_Witness ==
    game.state = "Running" /\ ev = "tick" /\ game.score = 2
       /\ game.snake.grow_on_next

\* Shorthands for the formulas below.
Opposite(d) ==
    CASE d = "Left" -> "Right" [] d = "Right" -> "Left"
      [] d = "Up" -> "Down" [] d = "Down" -> "Up"
\* The heading after proposal d is put to heading h.
Ruled(h, d) == IF d = Opposite(h) THEN h ELSE d
\* pos moved one cell in direction d.
Moved(pos, d) ==
    CASE d = "Left"  -> <<pos[1] - 1, pos[2]>>
      [] d = "Right" -> <<pos[1] + 1, pos[2]>>
      [] d = "Up"    -> <<pos[1], pos[2] - 1>>
      [] d = "Down"  -> <<pos[1], pos[2] + 1>>
OnBody(b, pos) == \E i \in 1..Len(b) : b[i] = pos
\* The step ran Game::reset.
ResetStep == game.state = "GameOver" /\ game'.state = "Start"

\* C11: right after every spawn_food call (at construction, after eating, in
\* reset) the food is a cell of the 20 x 20 grid that is not on the snake body.
C11_FoodAfterSpawn ==
    /\ (InGrid(game.food) /\ ~OnBody(body, game.food))
    /\ [][ ((RunningTick /\ Ate) \/ ResetStep) =>
             /\ InGrid(game'.food)
             /\ ~OnBody(game'.snake.body, game'.food) ]_vars

\* The snake has just eaten and the new food has been placed.
C11_Witness ==
    ev = "tick" /\ game.score >= 1 /\ game.snake.grow_on_next /\ Len(body) >= 4

\* C12: when a proposed heading is applied (the buffered direction at a tick,
\* or a direction handed to Game::pressed in Running) an opposite proposal
\* leaves the heading as it is and any other proposal becomes the heading, so
\* the heading is never reversed.
C12_NoReversal ==
    /\ [](game.state = "Running" =>
            \A d \in Direction : \A g \in pressed(game, d) :
                /\ g.snake.dir = Ruled(game.snake.dir, d)
                /\ g.snake.dir # Opposite(game.snake.dir))
    /\ [][ (ev' = "tick" /\ pending_direction # "None") =>
             /\ game'.snake.dir = Ruled(game.snake.dir, pending_direction)
             /\ game'.snake.dir # Opposite(game.snake.dir) ]_vars

\* A running snake has just moved up after a turn.
C12_Witness ==
    game.state = "Running" /\ ev = "tick" /\ game.snake.dir = "Up"
       /\ body[1][2] < 10

\* C13: one direction at most is pending; a direction key pressed while one is
\* pending is dropped; a direction key is never applied at the key press; the
\* pending direction is applied through the reversal rule at the next tick,
\* before the move, and the buffer is empty afterwards; apart from reset the
\* heading changes at ticks only.
C13_SingleSlot ==
    [][ /\ (ev' \in Direction /\ pending_direction # "None") =>
              (pending_direction' = pending_direction /\ game' = game)
        /\ (ev' \in Direction /\ pending_direction = "None") =>
              (pending_direction' = ev' /\ game' = game)
        /\ ev' = "tick" =>
              /\ pending_direction' = "None"
              /\ game'.snake.dir = IF pending_direction = "None"
                                   THEN game.snake.dir
                                   ELSE Ruled(game.snake.dir, pending_direction)
        /\ RunningTick =>
              game'.snake.body[1] = Moved(game.snake.body[1], game'.snake.dir)
        /\ (ev' # "tick" /\ ~ResetStep) => game'.snake.dir = game.snake.dir
      ]_vars

\* A second direction key was pressed in a running game while another
\* direction was pending.
C13_Witness ==
    /\ game.state = "Running" /\ ev \in Direction
    /\ pending_direction \in Direction /\ pending_direction # ev

\* C14: on every tick in Running the new head is not the cell of the second
\* segment before the move.
C14_NeverIntoNeck ==
    [][ RunningTick => game'.snake.body[1] # game.snake.body[2] ]_vars

\* C16: in Start and Running all cells of the body are pairwise distinct and
\* inside the grid.
C16_BodyDistinctInGrid ==
    game.state \in {"Start", "Running"} =>
        /\ \A i \in 1..Len(body) : InGrid(body[i])
        /\ \A i, j \in 1..Len(body) : i # j => body[i] # body[j]

\* A grown snake is running along the right border.
C16_Witness ==
    game.state = "Running" /\ Len(body) >= 5 /\ body[1][1] = 19

\* C19: in every reachable state the food is inside the grid and not on the
\* snake body.
C19_FoodOffBody == InGrid(game.food) /\ ~OnBody(body, game.food)

\* A snake that has eaten and grown is running, with the next food ahead.
C19_Witness ==
    game.state = "Running" /\ game.score >= 1 /\ ~game.snake.grow_on_next
       /\ Len(body) >= 5

\* C20: a tick that takes the game from Running to GameOver does not eat: it
\* leaves score as it is.
C20_NoEatOnLosingTick ==
    [][ (RunningTick /\ game'.state = "GameOver") =>
            (game'.score = game.score /\ ~Ate) ]_vars

\* A game with a positive score has just been lost.
C20_Witness ==
    game.state = "GameOver" /\ ev = "tick" /\ game.score >= 1
       /\ game.high_score = game.score

\* C15: Snake::update puts the old head moved one cell in the heading at the
\* front, returns whether that cell is the food, drops the tail exactly when
\* it did not eat and no growth was pending, leaves the flag cleared and the
\* heading as it was.
C15_SnakeUpdate ==
    [][ ev' \in {"move_true", "move_false"} =>
          LET b   == game.snake.body
              nh  == Moved(b[1], game.snake.dir)
              ate == (nh = game.food)
          IN  /\ (ev' = "move_true") <=> ate
              /\ game'.snake.body =
                    IF ~ate /\ ~game.snake.grow_on_next
                    THEN <<nh>> \o SubSeq(b, 1, Len(b) - 1)
                    ELSE <<nh>> \o b
              /\ game'.snake.grow_on_next = FALSE
              /\ game'.snake.dir = game.snake.dir
              /\ game'.food = game.food ]_vars

\* The initial snake has moved right with the food far away.
C15_Witness ==
    /\ ev = "move_false" /\ game.food = <<99, 99>>
    /\ body = << <<11, 10>>, <<10, 10>>, <<9, 10>> >>

\* C17: a call of Game::update in Running whose move eats and leaves the head
\* off the grid or on the body ends with score + 1, state GameOver and
\* high_score the larger of the old high_score and the new score.
C17_EatBeforeCollision ==
    [][ ( /\ ev' = "update" /\ game.state = "Running"
          /\ Ate
          /\ (~InGrid(game'.snake.body[1]) \/ HeadOnBody(game'.snake.body)) )
        => /\ game'.score = game.score + 1
           /\ game'.state = "GameOver"
           /\ game'.high_score = IF game.score + 1 > game.high_score
                                 THEN game.score + 1 ELSE game.high_score
      ]_vars

\* A move has eaten a food lying off the grid and ended the game with a new
\* high score.
C17_Witness ==
    /\ ev = "update" /\ game.state = "GameOver" /\ ~InGrid(body[1])
    /\ game.score = 1 /\ game.high_score = 1

\* C18: every call of spawn_food ends: in every reachable state in which the
\* next tick eats (and so calls spawn_food on the body with the food cell
\* pushed in front), some cell of the 20 x 20 grid is not on that body.
C18_SpawnTerminates ==
    LET heading == IF pending_direction = "None" THEN game.snake.dir
                   ELSE Ruled(game.snake.dir, pending_direction)
    IN  (game.state = "Running" /\ Moved(body[1], heading) = game.food) =>
            \E x, y \in 0..19 :
                <<x, y>> # game.food /\ ~OnBody(body, <<x, y>>)

\* The number of ticks after which a head that keeps the heading of snake s
\* is outside the grid.
StepsLeft(s) ==
    CASE s.dir = "Right" -> 20 - s.body[1][1]
      [] s.dir = "Left"  -> s.body[1][1] + 1
      [] s.dir = "Down"  -> 20 - s.body[1][2]
      [] s.dir = "Up"    -> s.body[1][2] + 1

\* Ticks keep arriving: as long as the state is Running, another step of the
\* move tick follows.
TicksArrive == []<>(game.state # "Running") \/ []<><<ev' = "tick">>_vars

\* C21: while the state is Running, no direction is pending and no direction
\* key is pressed, the head is at most 20 ticks away from leaving the grid in
\* its heading; every tick either ends the game or brings the head one tick
\* nearer to leaving, any other key changes neither, and when ticks keep
\* arriving the state becomes GameOver: after at most 20 ticks.
C21_GameOverWithinGrid ==
    /\ [](game.state = "Running" => StepsLeft(game.snake) \in 1..20)
    /\ [][ (game.state = "Running" /\ pending_direction = "None"
              /\ ev' \notin Direction) =>
             IF ev' = "tick"
             THEN \/ game'.state = "GameOver"
                  \/ /\ game'.state = "Running"
                     /\ StepsLeft(game'.snake) = StepsLeft(game.snake) - 1
             ELSE /\ game'.state = "Running"
                  /\ StepsLeft(game'.snake) = StepsLeft(game.snake) ]_vars
    /\ TicksArrive => ((game.state = "Running") ~> (game.state = "GameOver"))

\* A snake that started in the left columns of the top row (the only input
\* snakes of that row) has crossed the whole row and left the grid on the
\* right: the game ended on the tick that took the head to column 20.
C21_Witness ==
    /\ game.state = "GameOver"
    /\ ev = "tick"
    /\ Snake_head(game.snake) = <<20, 0>>

====
